---- MODULE Spec2Model ----
(***************************************************************************)
(* A model of the AppiumAutomation framework: the explicit waits of        *)
(* WaitUtils, the page-object lifecycle of BasePage / LoginPage /          *)
(* HomePage, the TestDataLoader cache, the capability assembly and the     *)
(* constructor of ConfigLoader, AppiumWrapper and the fixtures of          *)
(* tests/conftest.py.                                                      *)
(*                                                                         *)
(* Each component has its own specification (SpecWait, SpecPage, ...).     *)
(* The variables of the components a specification does not exercise keep  *)
(* their initial values.                                                   *)
(*                                                                         *)
(* Time is counted in ticks of one polling interval of WebDriverWait       *)
(* (0.5 s), so one second is TicksPerSec ticks.                            *)
(***************************************************************************)
EXTENDS Integers, Sequences, FiniteSets, TLC

(***************************************************************************)
(* Bounds of the model.                                                    *)
(***************************************************************************)
\* the largest timeout, in seconds, a caller of WaitUtils passes
MaxTimeout == 2

(***************************************************************************)
(* Program constants.                                                      *)
(***************************************************************************)
\* WebDriverWait polls every 0.5 s: ticks per second
TicksPerSec == 2
\* the Python value None of an Optional[int] timeout
None == -1

(***************************************************************************)
(* WaitUtils (src/utils/wait_utils.py)                                     *)
(***************************************************************************)
VARIABLES
    wdefault,   \* WaitUtils.timeout: the instance's default timeout (s)
    wpc,        \* position of the current wait call: idle, polling, done
    wmethod,    \* the wait method called
    wpred,      \* what the polled condition is evaluated on
    wtimeout,   \* the per-call timeout argument (None or seconds)
    wend,       \* the timeout the WebDriverWait was built with, in ticks
    wclock,     \* ticks elapsed since the wait started
    wevals,     \* number of evaluations of the condition so far
    wlast,      \* outcome of the last evaluation of the condition
    wsawTrue,   \* the awaited condition was observed to hold at some poll
    wafterTrue, \* evaluations made after the first poll at which the
                \* condition evaluated to true
    wexpired,   \* the polling loop ended because the deadline passed
    wresult     \* what the wait method gave its caller

waitVars == <<wdefault, wpc, wmethod, wpred, wtimeout, wend, wclock, wevals,
              wlast, wsawTrue, wafterTrue, wexpired, wresult>>

Methods == {"wait_for_element_present", "wait_for_element_visible",
            "wait_for_element_clickable", "wait_for_element_not_present",
            "wait_for_element_not_visible", "wait_for_text_in_element",
            "wait_for_custom_condition", "wait_for_staleness"}

\* the methods that poll with WebDriverWait.until_not
UntilNotMethods == {"wait_for_element_not_present",
                    "wait_for_element_not_visible"}

\* what the driver shows of the awaited element at one poll
ElemObs == {"absent", "stale", "hidden", "disabled", "enabled", "broken"}

\* what a caller-supplied predicate does at one poll
PredObs == {"true", "false", "raise_NoSuchElement", "raise_Timeout",
            "raise_Other"}

\* timeout or self.timeout: Python's `or` takes the right operand when the
\* left one is falsy, that is None or 0
EffectiveTimeout(timeout, selfTimeout) ==
    IF timeout = None \/ timeout = 0 THEN selfTimeout ELSE timeout

\* The outcomes of one call of the expected condition of method m when the
\* driver shows obs (txt: the element's text contains the awaited text).
\* "truthy"/"falsy" are returned values, anything else is the exception
\* raised.  A set: where the outcome depends on the selenium release both
\* outcomes are kept.
CondOutcomes(m, obs, txt) ==
    IF obs = "broken" THEN {"WebDriverException"}
    ELSE CASE m \in {"wait_for_element_present",
                     "wait_for_element_not_present"} ->
                \* EC.presence_of_element_located: driver.find_element
                IF obs = "absent" THEN {"NoSuchElement"} ELSE {"truthy"}
           [] m \in {"wait_for_element_visible",
                     "wait_for_element_not_visible"} ->
                \* EC.visibility_of_element_located: a stale element is
                \* caught and reported as False
                IF obs = "absent" THEN {"NoSuchElement"}
                ELSE IF obs \in {"disabled", "enabled"} THEN {"truthy"}
                ELSE {"falsy"}
           [] m = "wait_for_element_clickable" ->
                \* EC.element_to_be_clickable: visible and enabled; a stale
                \* element is caught by selenium 3 and raised by selenium 4
                IF obs = "absent" THEN {"NoSuchElement"}
                ELSE IF obs = "stale" THEN {"falsy", "StaleElement"}
                ELSE IF obs = "enabled" THEN {"truthy"}
                ELSE {"falsy"}
           [] m = "wait_for_text_in_element" ->
                \* EC.text_to_be_present_in_element
                IF obs = "absent" THEN {"NoSuchElement"}
                ELSE IF obs = "stale" THEN {"falsy"}
                ELSE IF txt THEN {"truthy"} ELSE {"falsy"}
           [] m = "wait_for_staleness" ->
                \* EC.staleness_of: element.is_enabled() raises
                \* StaleElementReferenceException once the handle is detached
                IF obs \in {"absent", "stale"} THEN {"truthy"} ELSE {"falsy"}
           [] OTHER -> {"falsy"}

\* lambda _: condition(): the outcome of the caller's predicate
PredOutcome(p) ==
    CASE p = "true" -> "truthy"
      [] p = "false" -> "falsy"
      [] p = "raise_NoSuchElement" -> "NoSuchElement"
      [] p = "raise_Timeout" -> "TimeoutException"
      [] OTHER -> "OtherError"

\* What the condition method m waits for means on the user interface, as
\* the docstring of the method states it ("Wait for element to be present
\* in DOM", ...), independently of how the expected condition evaluates it.
Awaited(m, obs, txt) ==
    CASE m = "wait_for_element_present" -> obs \notin {"absent", "broken"}
      [] m = "wait_for_element_visible" -> obs \in {"disabled", "enabled"}
      [] m = "wait_for_element_clickable" -> obs = "enabled"
      [] m = "wait_for_element_not_present" -> obs = "absent"
      [] m = "wait_for_element_not_visible" ->
             obs \in {"absent", "stale", "hidden"}
      [] m = "wait_for_text_in_element" ->
             obs \in {"hidden", "disabled", "enabled"} /\ txt
      [] m = "wait_for_staleness" -> obs \in {"absent", "stale"}
      [] OTHER -> FALSE

\* a faulty variant of UntilStep: a met condition is only reported once the deadline
\* has passed, the loop polls on until then
UntilStepFullWait(m, o, clock, end) ==
    LET met == IF m \in UntilNotMethods
               THEN o \in {"falsy", "NoSuchElement"}
               ELSE o = "truthy"
        notYet == IF m \in UntilNotMethods
                  THEN o = "truthy"
                  ELSE o \in {"falsy", "NoSuchElement"}
    IN  IF met THEN (IF clock >= end THEN "return" ELSE "sleep")
        ELSE IF notYet
             THEN IF clock >= end THEN "TimeoutException" ELSE "sleep"
             ELSE o

\* One iteration of WebDriverWait.until / until_not after the condition gave
\* outcome o, with clock ticks elapsed of a timeout of end ticks:
\* "return" (the wait is over, the condition is met), "sleep" (poll again
\* after one interval), or the exception raised.  An evaluation takes some
\* time, so time.monotonic() > end_time holds as soon as the sleeps add up
\* to the timeout.
UntilStep(m, o, clock, end) ==
    LET met == IF m \in UntilNotMethods
               THEN o \in {"falsy", "NoSuchElement"}
               ELSE o = "truthy"
        notYet == IF m \in UntilNotMethods
                  THEN o = "truthy"
                  ELSE o \in {"falsy", "NoSuchElement"}
    IN  IF met THEN "return"
        ELSE IF notYet
             THEN IF clock >= end THEN "TimeoutException" ELSE "sleep"
             ELSE o

\* a faulty variant of WaitResult: `except Exception` in place of
\* `except TimeoutException`
WaitResultCatchAll(u) ==
    IF u = "return" THEN "True" ELSE "False"

\* a faulty variant of WaitResult: no `except TimeoutException` clause
WaitResultNoExcept(u) ==
    IF u = "return" THEN "True" ELSE u

\* try: wait.until(...); return True / except TimeoutException: return False
WaitResult(u) ==
    CASE u = "return" -> "True"
      [] u = "TimeoutException" -> "False"
      [] OTHER -> u


\* wait = WebDriverWait(self.driver, timeout or self.timeout): the first
\* line of every wait method, here of method m called with timeout t on the
\* condition pred
StartWait(m, pred, t) ==
    /\ wpc' = "polling"
    /\ wmethod' = m
    /\ wpred' = pred
    /\ wtimeout' = t
    /\ wend' = EffectiveTimeout(t, wdefault) * TicksPerSec
    /\ wclock' = 0
    /\ wevals' = 0
    /\ wlast' = "none"
    /\ wsawTrue' = FALSE
    /\ wafterTrue' = 0
    /\ wexpired' = FALSE
    /\ wresult' = "none"
    /\ UNCHANGED wdefault

\* One iteration of the polling loop of the current wait: the condition is
\* evaluated (outcome o, taking cost ticks; awaited: the condition the
\* caller waits for holds at this poll), then the loop returns, raises or
\* sleeps one polling interval.
PollStep(o, awaited, cost) ==
    LET c == wclock + cost
        u == UntilStep(wmethod, o, c, wend)
    IN  /\ wevals' = wevals + 1
        /\ wlast' = o
        /\ wsawTrue' = (wsawTrue \/ awaited)
        /\ wafterTrue' = IF wsawTrue THEN wafterTrue + 1 ELSE wafterTrue
        /\ IF u = "sleep"
           THEN /\ wclock' = c + 1
                /\ UNCHANGED <<wpc, wexpired, wresult>>
           ELSE /\ wclock' = c
                /\ wpc' = "done"
                /\ wexpired' = (u = "TimeoutException" /\ o # u)
                /\ wresult' = WaitResult(u)
        /\ UNCHANGED <<wdefault, wmethod, wpred, wtimeout, wend>>

\* test code calls wait method m of WaitUtils with per-call timeout t
WaitCall(m, t) ==
    /\ wpc \in {"idle", "done"}
    /\ StartWait(m, "element", t)

\* a poll of one of the element-state waits: the driver shows obs
WaitPollElement(obs, txt) ==
    /\ wpc = "polling"
    /\ wpred = "element"
    /\ wmethod # "wait_for_custom_condition"
    /\ \E o \in CondOutcomes(wmethod, obs, txt) :
          PollStep(o, Awaited(wmethod, obs, txt), 0)

\* a poll of wait_for_custom_condition: the caller's predicate does p
WaitPollCustom(p) ==
    /\ wpc = "polling"
    /\ wpred = "element"
    /\ wmethod = "wait_for_custom_condition"
    /\ PollStep(PredOutcome(p), p = "true", 0)

Timeouts == 0..MaxTimeout

\* no wait method has been called yet
InitWaitCall ==
    /\ wpc = "idle"
    /\ wmethod = "none"
    /\ wpred = "none"
    /\ wtimeout = None
    /\ wend = 0
    /\ wclock = 0
    /\ wevals = 0
    /\ wlast = "none"
    /\ wsawTrue = FALSE
    /\ wafterTrue = 0
    /\ wexpired = FALSE
    /\ wresult = "none"

(***************************************************************************)
(* Page objects (src/pages/base_page.py, login_page.py, home_page.py)      *)
(***************************************************************************)
VARIABLES
    screen,     \* what the application under test shows
    creds,      \* the credentials last submitted: none, valid, invalid
    ppc,        \* position of the page constructor: idle, constructing
    pby,        \* who called the constructor: test code or LoginPage.login
    held,       \* the page objects returned to the test code
    heldWaits,  \* those of them constructed with wait_for_load
    heldLoaded, \* those of them whose is_page_loaded was observed true
                \* while they were constructed
    plast       \* how the last constructor or login call ended

pageVars == <<screen, creds, ppc, pby, held, heldWaits, heldLoaded, plast>>

Pages == {"LoginPage", "HomePage"}

Screens == {"splash", "login", "error", "loading", "home", "crashed"}

\* BasePage.__init__(..., timeout: int = 30)
PageLoadTimeout == 30
\* WaitUtils.__init__(driver, timeout: int = 30)
DefaultTimeout == 30
\* is_element_visible(..., timeout=5) in is_page_loaded
IsLoadedTimeout == 5

\* the element a page's is_page_loaded looks for
LoadLocator(page) ==
    IF page = "LoginPage" THEN "USERNAME_FIELD" ELSE "WELCOME_MESSAGE"

\* what the driver shows of a locator on a screen
ScreenObs(scr, locator) ==
    CASE scr = "crashed" -> "broken"
      [] scr \in {"login", "error"} /\ locator \in
             {"USERNAME_FIELD", "PASSWORD_FIELD", "LOGIN_BUTTON"} -> "enabled"
      [] scr = "error" /\ locator = "ERROR_MESSAGE" -> "enabled"
      [] scr = "home" /\ locator = "WELCOME_MESSAGE" -> "enabled"
      [] OTHER -> "absent"

\* AppiumWrapper.is_element_visible(locator, timeout): the result of
\* wait_for_element_visible on a screen that stays as it is during the wait
is_element_visible(scr, locator) ==
    LET o == CHOOSE x \in CondOutcomes("wait_for_element_visible",
                                       ScreenObs(scr, locator), FALSE) : TRUE
    IN  IF o = "truthy" THEN "true"
        ELSE IF o \in {"falsy", "NoSuchElement"} THEN "false"
        ELSE "raise_Other"

\* LoginPage.is_page_loaded / HomePage.is_page_loaded
is_page_loaded(page, scr) == is_element_visible(scr, LoadLocator(page))

\* BasePage.__init__ after self.wait_for_page_load(timeout=timeout): the
\* boolean the wait returned is not looked at, the constructor returns
PageConstructed(waitResult) == waitResult \in {"True", "False"}

\* the instance of page is handed to the test code
HandOut(page, waits, loaded) ==
    /\ held' = held \cup {page}
    /\ heldWaits' = IF waits THEN heldWaits \cup {page}
                    ELSE heldWaits \ {page}
    /\ heldLoaded' = IF loaded THEN heldLoaded \cup {page}
                     ELSE heldLoaded \ {page}

\* test code constructs page(driver, wait_for_load): BasePage.__init__ up to
\* the first evaluation of the load predicate
PageInit(page, wait_for_load) ==
    /\ ppc = "idle"
    /\ wpc \in {"idle", "done"}
    /\ pby' = "test"
    /\ IF wait_for_load
       THEN /\ ppc' = "constructing"
            /\ StartWait("wait_for_custom_condition", page, PageLoadTimeout)
            /\ plast' = "none"
            /\ UNCHANGED <<held, heldWaits, heldLoaded>>
       ELSE /\ HandOut(page, FALSE, FALSE)
            /\ plast' = "returned"
            /\ UNCHANGED <<ppc, waitVars>>
    /\ UNCHANGED <<screen, creds>>

\* One poll of wait_for_page_load: is_page_loaded is evaluated on the
\* screen; a false result comes after the IsLoadedTimeout seconds of its own
\* visibility wait.  When the poll ends the wait the constructor finishes,
\* and with it LoginPage.login if it made the call.
PagePoll ==
    /\ ppc = "constructing"
    /\ wpc = "polling"
    /\ wpred \in Pages
    /\ LET v == is_page_loaded(wpred, screen)
       IN  PollStep(PredOutcome(v), v = "true",
                    IF v = "false" THEN IsLoadedTimeout * TicksPerSec ELSE 0)
    /\ IF wpc' = "done"
       THEN /\ ppc' = "idle"
            /\ IF PageConstructed(wresult')
               THEN /\ HandOut(wpred, TRUE, wsawTrue')
                    /\ plast' = "returned"
               ELSE /\ plast' = wresult'
                    /\ UNCHANGED <<held, heldWaits, heldLoaded>>
       ELSE UNCHANGED <<ppc, held, heldWaits, heldLoaded, plast>>
    /\ UNCHANGED <<screen, creds, pby>>

\* LoginPage.login(username, password) on a LoginPage the test code holds:
\* the two send_keys and the click, which raise when the form is not shown,
\* then HomePage(self.driver) up to the first evaluation of its load
\* predicate.  valid: the credentials are those of an account.
login(valid) ==
    /\ ppc = "idle"
    /\ wpc \in {"idle", "done"}
    /\ "LoginPage" \in held
    /\ IF ScreenObs(screen, "USERNAME_FIELD") = "enabled"
       THEN /\ screen' = "loading"
            /\ creds' = IF valid THEN "valid" ELSE "invalid"
            /\ ppc' = "constructing"
            /\ pby' = "login"
            /\ plast' = "none"
            /\ StartWait("wait_for_custom_condition", "HomePage",
                         PageLoadTimeout)
       ELSE /\ plast' = IF screen = "crashed" THEN "WebDriverException"
                        ELSE "TimeoutException"
            /\ UNCHANGED <<screen, creds, ppc, pby, waitVars>>
    /\ UNCHANGED <<held, heldWaits, heldLoaded>>

\* the application under test moves on by itself
AppStep ==
    /\ \/ screen = "splash" /\ screen' = "login"
       \/ screen = "loading" /\ creds = "valid" /\ screen' = "home"
       \/ screen = "loading" /\ creds = "invalid" /\ screen' = "error"
       \/ screen # "crashed" /\ screen' = "crashed"
    /\ UNCHANGED <<creds, ppc, pby, held, heldWaits, heldLoaded, plast,
                   waitVars>>

InitPageVars ==
    /\ screen = "splash"
    /\ creds = "none"
    /\ ppc = "idle"
    /\ pby = "test"
    /\ held = {}
    /\ heldWaits = {}
    /\ heldLoaded = {}
    /\ plast = "none"

(***************************************************************************)
(* TestDataLoader (src/utils/test_data_loader.py)                          *)
(***************************************************************************)
VARIABLES
    fs,         \* the test-data directory: file name -> what the file holds
    cache,      \* TestDataLoader._cache: key -> parsed document
    lop,        \* the last operation on the loader
    lfile,      \* its filename argument
    lkey,       \* its test case name or environment argument
    lerr,       \* the error it raised ("none": it returned)
    lres,       \* the mapping it returned
    lread,      \* it went to the file system for the file
    loadedOK,   \* the file names successfully loaded with caching since the
                \* last clear_cache
    reread,     \* the last lookup went to the file system for a name that
                \* was in loadedOK
    unstable,   \* the last get_test_case_data returned another mapping
                \* than the get_test_case_data just before it did for the
                \* same (file, case)
    edited      \* a file of the directory changed after the last operation
                \* on the loader

dataVars == <<fs, cache, lop, lfile, lkey, lerr, lres, lread, loadedOK,
              reread, unstable, edited>>

\* a mapping without keys: {} in Python
EmptyMap == [k \in {} |-> 0]

\* dict.update / the merge of two mappings: other wins on each common key
DictUpdate(base, other) ==
    [k \in DOMAIN base \cup DOMAIN other |->
        IF k \in DOMAIN other THEN other[k] ELSE base[k]]

\* d[k] = v
DictSet(d, k, v) ==
    [j \in DOMAIN d \cup {k} |-> IF j = k THEN v ELSE d[j]]

\* d.get(k, {})
DictGet(d, k) == IF k \in DOMAIN d THEN d[k] ELSE EmptyMap

\* the file names the test code passes
JsonNames == {"login.json", "other.json"}
BareNames == {"login"}
FileNames == BareNames \cup JsonNames

\* filename.endswith('.json')
endswith_json(filename) == filename \in JsonNames

\* f"{filename}.json"
append_json(filename) ==
    IF filename = "login" THEN "login.json" ELSE filename

\* the test cases and environments the data files hold
CaseAlice == [username |-> "alice", password |-> "secret"]
CaseAliceEdited == [username |-> "alice", password |-> "changed"]
CaseBob == [username |-> "bob", password |-> ""]
EnvDefault == [a |-> 1, b |-> 2]
EnvStaging == [b |-> 3]
EnvProd == [b |-> 4, c |-> 5]

CaseNames == {"valid_login", "invalid_username", "no_such_case"}
EnvNames == {"default", "staging", "prod"}

\* the documents a data file can hold
DocFull ==
    [test_cases |-> [valid_login |-> CaseAlice, invalid_username |-> CaseBob],
     environments |-> [default |-> EnvDefault, staging |-> EnvStaging]]
DocEdited ==
    [test_cases |-> [valid_login |-> CaseAliceEdited],
     environments |-> [staging |-> EnvStaging, prod |-> EnvProd]]
DocNoCases ==
    [environments |-> [default |-> EnvDefault, prod |-> EnvProd]]
Docs == {DocFull, DocEdited, DocNoCases}

\* what a file of the data directory can be
FileStates ==
    {[kind |-> "absent", doc |-> EmptyMap],
     [kind |-> "malformed", doc |-> EmptyMap]}
    \cup {[kind |-> "json", doc |-> d] : d \in Docs}

\* the directories: login.json is in any state, other.json is there or not
Directories ==
    {d \in [JsonNames -> FileStates] :
        d["other.json"] \in {[kind |-> "absent", doc |-> EmptyMap],
                             [kind |-> "json", doc |-> DocFull]}}

\* a faulty variant of load_test_data: a missing file is cached as an empty
\* document and reported as a missing key
load_test_data_poison(c, files, filename, useCache) ==
    IF useCache /\ filename \in DOMAIN c
    THEN [err |-> "none", data |-> c[filename], cache |-> c, read |-> FALSE]
    ELSE LET name == IF endswith_json(filename) THEN filename
                     ELSE append_json(filename)
             file == files[name]
         IN  IF file.kind = "absent"
             THEN [err |-> "KeyError", data |-> EmptyMap,
                   cache |-> DictSet(c, name, EmptyMap), read |-> TRUE]
             ELSE IF file.kind = "malformed"
             THEN [err |-> "ValueError", data |-> EmptyMap, cache |-> c,
                   read |-> TRUE]
             ELSE [err |-> "none", data |-> file.doc,
                   cache |-> IF useCache THEN DictSet(c, name, file.doc)
                             ELSE c,
                   read |-> TRUE]

\* TestDataLoader.load_test_data(filename, cache) on the cache c and the
\* directory files: the error raised or the data returned, the cache
\* afterwards, and whether the call went to the file system
load_test_data(c, files, filename, useCache) ==
    IF useCache /\ filename \in DOMAIN c
    THEN [err |-> "none", data |-> c[filename], cache |-> c, read |-> FALSE]
    ELSE LET name == IF endswith_json(filename) THEN filename
                     ELSE append_json(filename)
             file == files[name]
         IN  IF file.kind = "absent"
             THEN [err |-> "FileNotFoundError", data |-> EmptyMap,
                   cache |-> c, read |-> TRUE]
             ELSE IF file.kind = "malformed"
             THEN [err |-> "ValueError", data |-> EmptyMap, cache |-> c,
                   read |-> TRUE]
             ELSE [err |-> "none", data |-> file.doc,
                   cache |-> IF useCache THEN DictSet(c, name, file.doc)
                             ELSE c,
                   read |-> TRUE]

\* the part of get_test_case_data after the load: the error raised or the
\* test case returned
CaseLookup(data, test_case_name) ==
    IF "test_cases" \notin DOMAIN data
    THEN [err |-> "ValueError", res |-> EmptyMap]
    ELSE IF test_case_name \notin DOMAIN data.test_cases
    THEN [err |-> "KeyError", res |-> EmptyMap]
    ELSE [err |-> "none", res |-> data.test_cases[test_case_name]]

\* a faulty variant of MergeEnv: the default environment wins on a common key
MergeEnvDefaultWins(default_env, env_data) ==
    [merged |-> DictUpdate(env_data, default_env), stored |-> default_env]

\* merged = default_env.copy(); merged.update(env_data): the merged mapping
\* and the default mapping as it is stored afterwards
MergeEnv(default_env, env_data) ==
    [merged |-> DictUpdate(default_env, env_data), stored |-> default_env]

\* the part of get_environment_data after the load, for the environment
\* name resolved: the mapping returned and the document as it is afterwards
EnvLookup(data, environment) ==
    LET envs == DictGet(data, "environments")
        env_data == DictGet(envs, environment)
    IN  IF environment # "default" /\ "default" \in DOMAIN envs
        THEN LET m == MergeEnv(envs["default"], env_data)
             IN  [res |-> m.merged,
                  data |-> [data EXCEPT !["environments"] =
                               [envs EXCEPT !["default"] = m.stored]]]
        ELSE [res |-> env_data, data |-> data]

\* what every lookup records of itself
Record(op, filename, key, lo, err, res) ==
    /\ lop' = op
    /\ lfile' = filename
    /\ lkey' = key
    /\ lerr' = err
    /\ lres' = res
    /\ lread' = lo.read
    /\ edited' = FALSE
    /\ reread' = (filename \in loadedOK /\ lo.read)
    /\ loadedOK' = IF lo.err = "none" THEN loadedOK \cup {filename}
                   ELSE loadedOK

\* test code calls load_test_data(filename, cache=useCache)
LoadTestData(filename, useCache) ==
    LET lo == load_test_data(cache, fs, filename, useCache)
    IN  /\ cache' = lo.cache
        /\ lop' = "load_test_data"
        /\ lfile' = filename
        /\ lkey' = "none"
        /\ lerr' = lo.err
        /\ lres' = lo.data
        /\ lread' = lo.read
        /\ edited' = FALSE
        /\ reread' = (useCache /\ filename \in loadedOK /\ lo.read)
        /\ loadedOK' = IF useCache /\ lo.err = "none"
                       THEN loadedOK \cup {filename} ELSE loadedOK
        /\ unstable' = FALSE
        /\ UNCHANGED fs

\* TestDataLoader.get_test_case_data(filename, test_case_name)
get_test_case_data(filename, test_case_name) ==
    LET lo == load_test_data(cache, fs, filename, TRUE)
        cl == IF lo.err # "none" THEN [err |-> lo.err, res |-> EmptyMap]
              ELSE CaseLookup(lo.data, test_case_name)
    IN  /\ cache' = lo.cache
        /\ Record("get_test_case_data", filename, test_case_name, lo,
                  cl.err, cl.res)
        /\ unstable' = /\ lop = "get_test_case_data"
                        /\ lerr = "none"
                        /\ cl.err = "none"
                        /\ lfile = filename
                        /\ lkey = test_case_name
                        /\ lres # cl.res
        /\ UNCHANGED fs

\* TestDataLoader.get_environment_data(filename, environment) with the
\* variable TEST_ENV of the process environment ("unset" or a name);
\* environment "None" is the argument left out
\* the (environment, TEST_ENV) pairs: TEST_ENV is only read when the
\* argument is left out
EnvArgs ==
    {<<e, "unset">> : e \in EnvNames}
    \cup {<<"None", v>> : v \in {"unset", "staging"}}

get_environment_data(filename, environment, TEST_ENV) ==
    LET lo == load_test_data(cache, fs, filename, TRUE)
        env == IF environment # "None" THEN environment
               ELSE IF TEST_ENV = "unset" THEN "default" ELSE TEST_ENV
        el == IF lo.err # "none" THEN [res |-> EmptyMap, data |-> lo.data]
              ELSE EnvLookup(lo.data, env)
    IN  \* the document the load returned is the object the cache holds
        /\ cache' = [k \in DOMAIN lo.cache |->
                        IF lo.err = "none" /\ lo.cache[k] = lo.data
                        THEN el.data ELSE lo.cache[k]]
        /\ Record("get_environment_data", filename, env, lo, lo.err, el.res)
        /\ unstable' = FALSE
        /\ UNCHANGED fs

\* the cases of the data files in the order the files list them
CaseOrder == <<"valid_login", "invalid_username">>

\* data['test_cases'].items(): the names of the section, in file order
CaseItems(test_cases) ==
    LET IsCase(k) == k \in DOMAIN test_cases
    IN  SelectSeq(CaseOrder, IsCase)

\* a faulty variant of AllCases: no copy, '_name' is set on the stored case
AllCasesInPlace(data) ==
    IF "test_cases" \notin DOMAIN data
    THEN [res |-> <<>>, data |-> data]
    ELSE LET names == CaseItems(data.test_cases)
             named == [c \in DOMAIN data.test_cases |->
                          DictSet(data.test_cases[c], "_name", c)]
         IN  [res |-> [i \in 1..Len(names) |-> named[names[i]]],
              data |-> [data EXCEPT !["test_cases"] = named]]

\* the part of get_all_test_cases after the load: the list returned and
\* the document as it is afterwards; each entry is a copy of the case with
\* the key '_name' added
AllCases(data) ==
    IF "test_cases" \notin DOMAIN data
    THEN [res |-> <<>>, data |-> data]
    ELSE LET names == CaseItems(data.test_cases)
         IN  [res |-> [i \in 1..Len(names) |->
                          DictSet(data.test_cases[names[i]], "_name",
                                  names[i])],
              data |-> data]

\* TestDataLoader.get_all_test_cases(filename)
get_all_test_cases(filename) ==
    LET lo == load_test_data(cache, fs, filename, TRUE)
        ac == IF lo.err # "none" THEN [res |-> <<>>, data |-> lo.data]
              ELSE AllCases(lo.data)
    IN  \* the document the load returned is the object the cache holds
        /\ cache' = [k \in DOMAIN lo.cache |->
                        IF lo.err = "none" /\ lo.cache[k] = lo.data
                        THEN ac.data ELSE lo.cache[k]]
        /\ Record("get_all_test_cases", filename, "none", lo, lo.err, ac.res)
        /\ unstable' = FALSE
        /\ UNCHANGED fs

\* TestDataLoader.clear_cache()
clear_cache ==
    /\ cache' = EmptyMap
    /\ lop' = "clear_cache"
    /\ lfile' = "none"
    /\ lkey' = "none"
    /\ lerr' = "none"
    /\ lres' = EmptyMap
    /\ lread' = FALSE
    /\ loadedOK' = {}
    /\ reread' = FALSE
    /\ unstable' = FALSE
    /\ edited' = FALSE
    /\ UNCHANGED fs

\* somebody edits, creates or deletes a file of the data directory
EditFile(name, state) ==
    /\ fs[name] # state
    /\ fs' = [fs EXCEPT ![name] = state]
    /\ fs' \in Directories
    /\ edited' = TRUE
    /\ reread' = FALSE
    /\ unstable' = FALSE
    /\ UNCHANGED <<cache, lop, lfile, lkey, lerr, lres, lread, loadedOK>>

\* TestDataLoader.__init__: an empty cache, nothing looked up yet
InitDataVars ==
    /\ cache = EmptyMap
    /\ lop = "none"
    /\ lfile = "none"
    /\ lkey = "none"
    /\ lerr = "none"
    /\ lres = EmptyMap
    /\ lread = FALSE
    /\ loadedOK = {}
    /\ reread = FALSE
    /\ unstable = FALSE
    /\ edited = FALSE

(***************************************************************************)
(* ConfigLoader (src/utils/config_loader.py)                               *)
(***************************************************************************)
VARIABLES
    cfgApp,       \* ConfigLoader._config["app"]
    cfgEnv,       \* ConfigLoader._config["environment"], its text values
    androidCaps,  \* ... ["environment"]["android_capabilities"]
    iosCaps,      \* ... ["environment"]["ios_capabilities"]
    cfgCaps,      \* ConfigLoader._config["capabilities"]
    platform,     \* ConfigLoader._platform
    cpc,          \* constructed, or called: get_all_capabilities returned
    capabilities  \* what get_all_capabilities returned

capsVars == <<cfgApp, cfgEnv, androidCaps, iosCaps, cfgCaps, platform, cpc,
              capabilities>>

\* the largest number of keys of the JSON "capabilities" section
MaxOverrides == 2

\* the capabilities get_all_capabilities derives from the other sections
BaseKeys == {"platformName", "platformVersion", "deviceName", "app"}
PlatformKeys == {"automationName", "appPackage", "appActivity", "bundleId"}
DerivedKeys == BaseKeys \cup PlatformKeys
\* the keys the "capabilities" section can hold
CapKeys == DerivedKeys \cup {"noReset"}

Platforms == {"Android", "android", "iOS", "Windows"}

\* str.lower() on the platform names
lower(p) ==
    CASE p = "Android" -> "android"
      [] p = "iOS" -> "ios"
      [] p = "Windows" -> "windows"
      [] OTHER -> p

\* d.get(k, default)
GetOr(d, k, default) == IF k \in DOMAIN d THEN d[k] ELSE default

\* the mappings with keys among keys, every key k holding val[k]
SubMaps(keys, val) == {[k \in s |-> val[k]] : s \in SUBSET keys}

\* the "app" sections: package_name can be missing, empty or set
AppConfigs ==
    {DictUpdate([app_path |-> "app.apk"], DictUpdate(p, o)) :
        p \in {EmptyMap, [package_name |-> ""],
               [package_name |-> "com.example.app"]},
        o \in SubMaps({"activity_name", "bundle_id"},
                      [activity_name |-> ".MainActivity",
                       bundle_id |-> "com.example.ios"])}

\* the text values of the "environment" sections
EnvConfigs ==
    {DictUpdate([platform_version |-> "14", device_name |-> "Pixel"], a) :
        a \in {EmptyMap, [automation_name |-> "Espresso"]}}

AndroidCapsConfigs ==
    {EmptyMap, [automationName |-> "from_android_capabilities"],
     [platformName |-> "from_android_capabilities",
      noReset |-> "from_android_capabilities"],
     [appPackage |-> "from_android_capabilities"]}

IosCapsConfigs ==
    {EmptyMap, [deviceName |-> "from_ios_capabilities",
                bundleId |-> "from_ios_capabilities"]}

\* the "capabilities" sections: at most MaxOverrides keys
CapsConfigs ==
    {[k \in s |-> "from_capabilities"] :
        s \in {t \in SUBSET CapKeys : Cardinality(t) <= MaxOverrides}}

\* a faulty variant of BaseCapabilities: {**caps_config, "platformName": ...}
BaseCapabilitiesDefaultsWin(base, caps_config) ==
    DictUpdate(caps_config, base)

\* capabilities = {"platformName": ..., "app": ..., **caps_config}
BaseCapabilities(base, caps_config) == DictUpdate(base, caps_config)

\* a faulty variant of SetIfTruthy: the capability is set without the test
SetAlways(caps, cap, app_config, key) ==
    DictSet(caps, cap, GetOr(app_config, key, ""))

\* if app_config.get(key): capabilities[cap] = app_config.get(key)
SetIfTruthy(caps, cap, app_config, key) ==
    IF GetOr(app_config, key, "") # ""
    THEN DictSet(caps, cap, app_config[key]) ELSE caps

\* ConfigLoader.get_all_capabilities() on the "app", "environment" and
\* "capabilities" sections; acaps and icaps are the android_capabilities
\* and ios_capabilities of the "environment" section
get_all_capabilities(app_config, env_config, acaps, icaps, caps_config, plat) ==
    LET base == [platformName |-> plat,
                 platformVersion |-> GetOr(env_config, "platform_version", ""),
                 deviceName |-> GetOr(env_config, "device_name", ""),
                 app |-> GetOr(app_config, "app_path", "")]
        caps == BaseCapabilities(base, caps_config)
    IN  IF lower(plat) = "android"
        THEN LET a1 == DictSet(caps, "automationName",
                          GetOr(env_config, "automation_name",
                                "UiAutomator2"))
                 a2 == SetIfTruthy(a1, "appPackage", app_config,
                                   "package_name")
                 a3 == SetIfTruthy(a2, "appActivity", app_config,
                                   "activity_name")
             IN  DictUpdate(a3, acaps)
        ELSE IF lower(plat) = "ios"
        THEN LET i1 == DictSet(caps, "automationName",
                          GetOr(env_config, "automation_name", "XCUITest"))
                 i2 == SetIfTruthy(i1, "bundleId", app_config, "bundle_id")
             IN  DictUpdate(i2, icaps)
        ELSE caps

\* test code calls config_loader.get_all_capabilities()
GetAllCapabilities ==
    /\ capabilities' = get_all_capabilities(cfgApp, cfgEnv, androidCaps,
                                            iosCaps, cfgCaps, platform)
    /\ cpc' = "called"
    /\ UNCHANGED <<cfgApp, cfgEnv, androidCaps, iosCaps, cfgCaps, platform>>

\* a ConfigLoader that has loaded a configuration file
InitCaps ==
    /\ cfgApp \in AppConfigs
    /\ cfgEnv \in EnvConfigs
    /\ androidCaps \in AndroidCapsConfigs
    /\ iosCaps \in IosCapsConfigs
    /\ cfgCaps \in CapsConfigs
    /\ platform \in Platforms
    /\ cpc = "constructed"
    /\ capabilities = EmptyMap

\* no ConfigLoader is used
InitCapsIdle ==
    /\ cfgApp = EmptyMap
    /\ cfgEnv = EmptyMap
    /\ androidCaps = EmptyMap
    /\ iosCaps = EmptyMap
    /\ cfgCaps = EmptyMap
    /\ platform = "Android"
    /\ cpc = "constructed"
    /\ capabilities = EmptyMap

(***************************************************************************)
(* ConfigLoader.__init__ (src/utils/config_loader.py): the choice of the   *)
(* configuration file, its load and the platform                           *)
(***************************************************************************)
VARIABLES
    cfs,          \* the config directory: file name -> what the file holds
    kpc,          \* "none", or the last ConfigLoader(...) call "constructed"
                  \* the loader or "failed"
    kargPath,     \* its config_path argument ("None": left out)
    kargPlatform, \* its platform argument ("None": left out)
    kenv,         \* APPIUM_PLATFORM of the process environment at the call
    kpath,        \* self.config_path
    kconfig,      \* self._config: what json.load returned
    kplatform,    \* self._platform
    kerr,         \* the error the call raised ("none": it returned)
    kaccess,      \* the outcome of the last section getter on the loader
    kedited       \* a config file changed after the call

ctorVars == <<cfs, kpc, kargPath, kargPlatform, kenv, kpath, kconfig,
              kplatform, kerr, kaccess, kedited>>

DefaultConfig == "app_config.json"
CustomConfig == "custom.json"
ConfigNames ==
    {DefaultConfig, "app_config_android.json", "app_config_ios.json",
     CustomConfig}

\* what json.load returns: a JSON object with its environment.platform
\* ("none": the key is not there), or a JSON value that is no object
DictConfig(p) == [kind |-> "dict", platform |-> p]
NoConfig == [kind |-> "none", platform |-> "none"]
NotObject == [kind |-> "not_object", platform |-> "none"]

\* what a config file can be: not there, not JSON, JSON that is no object
\* (null, a list), or a JSON object
ConfigStates ==
    {[kind |-> "absent", platform |-> "none"],
     [kind |-> "malformed", platform |-> "none"],
     [kind |-> "not_object", platform |-> "none"]}
    \cup {[kind |-> "json", platform |-> p] : p \in {"none", "Android", "iOS"}}

\* the config directories: app_config.json and app_config_ios.json are in
\* any state, the Android file is there or not, custom.json is not there,
\* no object or an object that declares no platform
ConfigDirectories ==
    {d \in [ConfigNames -> ConfigStates] :
        /\ d["app_config_android.json"] \in
              {[kind |-> "absent", platform |-> "none"],
               [kind |-> "json", platform |-> "Android"]}
        /\ d[CustomConfig] \in
              {[kind |-> "absent", platform |-> "none"],
               [kind |-> "not_object", platform |-> "none"],
               [kind |-> "json", platform |-> "none"]}}

\* the platform arguments and the values of APPIUM_PLATFORM
PlatformArgs == {"None", "Android", "android", "iOS"}
EnvPlatforms == {"unset", "Android", "iOS"}

\* f"app_config_{platform_lower}.json"
PlatformConfig(platform_lower) ==
    IF platform_lower = "android" THEN "app_config_android.json"
    ELSE "app_config_ios.json"

\* os.path.exists(path)
exists(files, path) == files[path].kind # "absent"

\* the file ConfigLoader.__init__ settles on
ChooseConfigPath(config_path, plat, APPIUM_PLATFORM, files) ==
    IF config_path # "None" THEN config_path
    ELSE IF plat # "None"
    THEN IF exists(files, PlatformConfig(lower(plat)))
         THEN PlatformConfig(lower(plat)) ELSE DefaultConfig
    ELSE IF APPIUM_PLATFORM # "unset"
    THEN IF exists(files, PlatformConfig(lower(APPIUM_PLATFORM)))
         THEN PlatformConfig(lower(APPIUM_PLATFORM)) ELSE DefaultConfig
    ELSE DefaultConfig

\* a faulty variant of load_config: a file that cannot be read or parsed
\* gives no configuration instead of an error
load_config_lenient(files, path) ==
    LET file == files[path]
    IN  IF file.kind \in {"absent", "malformed", "not_object"}
        THEN [err |-> "none", config |-> NotObject]
        ELSE [err |-> "none", config |-> DictConfig(file.platform)]

\* ConfigLoader._load_config() on self.config_path = path
load_config(files, path) ==
    LET file == files[path]
    IN  IF file.kind = "absent"
        THEN [err |-> "FileNotFoundError", config |-> NoConfig]
        ELSE IF file.kind = "malformed"
        THEN [err |-> "ValueError", config |-> NoConfig]
        ELSE IF file.kind = "not_object"
        THEN [err |-> "none", config |-> NotObject]
        ELSE [err |-> "none", config |-> DictConfig(file.platform)]

\* the end of ConfigLoader.__init__: self._platform from the argument or
\* from self.get_environment_config().get("platform", "Android")
ResolvePlatform(plat, config) ==
    IF plat # "None" THEN [err |-> "none", platform |-> plat]
    ELSE IF config.kind # "dict"
    THEN [err |-> "AttributeError", platform |-> "none"]
    ELSE IF config.platform = "none"
    THEN [err |-> "none", platform |-> "Android"]
    ELSE [err |-> "none", platform |-> config.platform]

\* ConfigLoader(config_path, platform) with APPIUM_PLATFORM in the
\* process environment
ConfigLoaderInit(config_path, plat, APPIUM_PLATFORM) ==
    LET chosen == ChooseConfigPath(config_path, plat, APPIUM_PLATFORM, cfs)
        lo == load_config(cfs, chosen)
        rp == ResolvePlatform(plat, lo.config)
        err == IF lo.err # "none" THEN lo.err ELSE rp.err
    IN  /\ kargPath' = config_path
        /\ kargPlatform' = plat
        /\ kenv' = APPIUM_PLATFORM
        /\ kpath' = chosen
        /\ kerr' = err
        /\ kpc' = IF err = "none" THEN "constructed" ELSE "failed"
        /\ kconfig' = lo.config
        /\ kplatform' = IF err = "none" THEN rp.platform ELSE "none"
        /\ kaccess' = "none"
        /\ kedited' = FALSE
        /\ UNCHANGED cfs

\* get_app_config / get_environment_config / get_capabilities_config:
\* self._config.get(section, {})
GetSection ==
    /\ kpc = "constructed"
    /\ kaccess' = IF kconfig.kind = "dict" THEN "ok" ELSE "AttributeError"
    /\ UNCHANGED <<cfs, kpc, kargPath, kargPlatform, kenv, kpath, kconfig,
                   kplatform, kerr, kedited>>

\* ConfigLoader.get_platform()
get_platform == kplatform

\* somebody edits, creates or deletes a file of the config directory
EditConfigFile(name, state) ==
    /\ cfs[name] # state
    /\ cfs' = [cfs EXCEPT ![name] = state]
    /\ cfs' \in ConfigDirectories
    /\ kedited' = TRUE
    /\ UNCHANGED <<kpc, kargPath, kargPlatform, kenv, kpath, kconfig,
                   kplatform, kerr, kaccess>>

\* no ConfigLoader(...) call yet
InitCtorVars ==
    /\ kpc = "none"
    /\ kargPath = "None"
    /\ kargPlatform = "None"
    /\ kenv = "unset"
    /\ kpath = "None"
    /\ kconfig = NoConfig
    /\ kplatform = "none"
    /\ kerr = "none"
    /\ kaccess = "none"
    /\ kedited = FALSE

\* the constructor is not used: an empty config directory
InitCtorIdle ==
    /\ cfs = [n \in ConfigNames |-> [kind |-> "absent", platform |-> "none"]]
    /\ InitCtorVars

(***************************************************************************)
(* The test_case fixture (src/tests/conftest.py)                           *)
(*                                                                         *)
(* A function name or case name is the sequence of its words: the words    *)
(* of "test_successful_login" are test, successful, login.                 *)
(***************************************************************************)
VARIABLES
    tpc,       \* "idle", "start" (a test asks for the fixture), "resolved"
    tname,     \* request.function.__name__
    tmarker,   \* the test_case_name marker of the test
    tcase,     \* test_case_name as the fixture settles it
    tfile,     \* test_data_file
    tsource,   \* where tcase comes from: "marker", "mapping", "inference"
    toutcome,  \* what becomes of the test: "run", "skipped", "error"
    tdata      \* the mapping the fixture hands to the test body

testCaseVars == <<tpc, tname, tmarker, tcase, tfile, tsource, toutcome,
                  tdata>>

\* the largest number of words after test_ in a generated function name
MaxWords == 2

\* the words of the generated function names
Words == {"successful", "valid", "invalid", "wrong", "empty", "logout",
          "test"}

ValidLogin == <<"valid", "login">>
InvalidUsername == <<"invalid", "username">>
EmptyCredentials == <<"empty", "credentials">>

\* None, or the empty string: the names `if not test_case_name` rejects
NoName == <<>>

\* the functions of tests/test_login.py that use the fixture
MappedNames ==
    {<<"test", "successful", "login">>,
     <<"test", "login", "with", "invalid", "credentials">>,
     <<"test", "login", "with", "empty", "fields">>}

FunctionNames ==
    MappedNames
    \cup {<<"test">> \o ws : ws \in UNION {[1..n -> Words] : n \in 1..MaxWords}}

\* "login_test_data", the default data file of the fixture: the bare name
\* of the data directory
DefaultDataFile == "login"

\* no marker on the test
NoMarker ==
    [present |-> FALSE, hasArg |-> FALSE, arg |-> NoName, data_file |-> "none"]

\* pytest.mark.test_case_name(arg, data_file=...): with or without a first
\* argument, with or without the data_file keyword
Markers ==
    {NoMarker}
    \cup {[present |-> TRUE, hasArg |-> FALSE, arg |-> NoName, data_file |-> d] :
            d \in {"none"} \cup JsonNames}
    \cup {[present |-> TRUE, hasArg |-> TRUE, arg |-> a, data_file |-> d] :
            a \in {NoName, ValidLogin, InvalidUsername, EmptyCredentials},
            d \in {"none"} \cup JsonNames}

\* test_case_mapping.get(test_name)
test_case_mapping(name) ==
    CASE name = <<"test", "successful", "login">> -> ValidLogin
      [] name = <<"test", "login", "with", "invalid", "credentials">> ->
            InvalidUsername
      [] name = <<"test", "login", "with", "empty", "fields">> ->
            EmptyCredentials
      [] OTHER -> NoName

\* sub in w for two words: a word holds itself, and "invalid" holds "valid"
InWord(sub, w) == sub = w \/ (sub = "valid" /\ w = "invalid")

\* sub in base_name
contains(sub, base_name) ==
    \E i \in DOMAIN base_name : InWord(sub, base_name[i])

\* name.replace("test_", ""): every word test that is followed by another
\* word goes, wherever it stands
RECURSIVE replace_test_(_)
replace_test_(name) ==
    IF Len(name) <= 1 THEN name
    ELSE IF Head(name) = "test" THEN replace_test_(Tail(name))
    ELSE <<Head(name)>> \o replace_test_(Tail(name))

\* the inference of the case name from the function name:
\* base_name = test_name.replace("test_", "").replace("test_login_", "")
\* (the second replace finds nothing once every "test_" is gone), then the
\* first pattern that matches
InferCase(name) ==
    LET base_name == replace_test_(name)
    IN  IF contains("successful", base_name) \/ contains("valid", base_name)
        THEN ValidLogin
        ELSE IF contains("invalid", base_name) \/ contains("wrong", base_name)
        THEN InvalidUsername
        ELSE IF contains("empty", base_name) THEN EmptyCredentials
        ELSE base_name

\* the fixture up to the load: the case name, the data file and where the
\* case name comes from
ResolveCase(name, marker) ==
    LET first == IF marker.present
                 THEN (IF marker.hasArg THEN marker.arg ELSE NoName)
                 ELSE test_case_mapping(name)
        file == IF marker.present /\ marker.data_file # "none"
                THEN marker.data_file ELSE DefaultDataFile
    IN  IF first # NoName
        THEN [case |-> first, file |-> file,
              source |-> IF marker.present THEN "marker" ELSE "mapping"]
        ELSE [case |-> InferCase(name), file |-> file,
              source |-> "inference"]

\* the key of a case name in a data file; the names no data file of the
\* model holds share one key
CaseKey(case) ==
    CASE case = ValidLogin -> "valid_login"
      [] case = InvalidUsername -> "invalid_username"
      [] case = EmptyCredentials -> "empty_credentials"
      [] OTHER -> "no_such_case"

\* a faulty variant of FixtureOutcome: except Exception: pytest.skip(...)
FixtureOutcomeSkipAll(err) ==
    IF err = "none" THEN "run" ELSE "skipped"

\* try: return get_test_case_data(...) / except KeyError: pytest.skip(...)
FixtureOutcome(err) ==
    IF err = "none" THEN "run"
    ELSE IF err = "KeyError" THEN "skipped"
    ELSE "error"

\* the fixture settles the case name and data file of the test at hand
Resolve ==
    /\ tpc = "start"
    /\ LET r == ResolveCase(tname, tmarker)
       IN  /\ tcase' = r.case
           /\ tfile' = r.file
           /\ tsource' = r.source
    /\ tpc' = "resolved"
    /\ UNCHANGED <<tname, tmarker, toutcome, tdata>>

\* the function names and markers of the tests of a session
SessionNames == MappedNames \cup {<<"test", "logout">>, <<"test", "invalid">>}
SessionMarkers ==
    {NoMarker,
     [present |-> TRUE, hasArg |-> FALSE, arg |-> NoName,
      data_file |-> "login.json"],
     [present |-> TRUE, hasArg |-> TRUE, arg |-> InvalidUsername,
      data_file |-> "other.json"]}

\* the test_case fixture for the test function name with marker, on the
\* session's TestDataLoader
TestCaseFixture(name, marker) ==
    LET r == ResolveCase(name, marker)
    IN  /\ get_test_case_data(r.file, CaseKey(r.case))
        /\ tname' = name
        /\ tmarker' = marker
        /\ tcase' = r.case
        /\ tfile' = r.file
        /\ tsource' = r.source
        /\ toutcome' = FixtureOutcome(lerr')
        /\ tdata' = IF lerr' = "none" THEN lres' ELSE EmptyMap
        /\ tpc' = "resolved"

\* no test has asked for the fixture
InitTestCaseVars ==
    /\ tpc = "idle"
    /\ tname = NoName
    /\ tmarker = NoMarker
    /\ tcase = NoName
    /\ tfile = "none"
    /\ tsource = "none"
    /\ toutcome = "none"
    /\ tdata = EmptyMap

(***************************************************************************)
(* The config fixture (src/tests/conftest.py)                              *)
(***************************************************************************)
VARIABLES
    gpc,        \* "idle", or "done": the config fixture has run
    gplatform,  \* APPIUM_PLATFORM of the process environment at the run
    gdevice,    \* APPIUM_DEVICE of the process environment at the run
    gerr,       \* the error the fixture raised ("none": it returned)
    gkeys       \* the keys of the mapping the fixture returned

configFixtureVars == <<gpc, gplatform, gdevice, gerr, gkeys>>

\* the parameters of ConfigLoader.__init__ besides self
InitParams == {"config_path", "platform"}

\* the methods ConfigLoader defines
ConfigLoaderMethods ==
    {"get_app_config", "get_environment_config", "get_capabilities_config",
     "get_build_number", "get_version", "get_environment", "get_platform",
     "get_all_capabilities", "get_server_url"}

\* the values of APPIUM_DEVICE
EnvDevices == {"unset", "Pixel"}

\* a call of __init__ with the keyword arguments keywords: Python raises
\* TypeError for a keyword that is no parameter, before the body runs
BindInit(keywords) ==
    IF keywords \subseteq InitParams THEN "none" ELSE "TypeError"

\* the method calls methods on a loader, in order: AttributeError at the
\* first name the class does not define
RECURSIVE CallMethods(_)
CallMethods(methods) ==
    IF methods = <<>> THEN "none"
    ELSE IF Head(methods) \notin ConfigLoaderMethods THEN "AttributeError"
    ELSE CallMethods(Tail(methods))

\* the config fixture: ConfigLoader(platform=platform, device=device), then
\* the mapping built from get_all_capabilities, get_server_url,
\* get_platform and get_device
ConfigFixture(APPIUM_PLATFORM, APPIUM_DEVICE) ==
    LET bind == BindInit({"platform", "device"})
        plat == IF APPIUM_PLATFORM = "unset" THEN "None" ELSE APPIUM_PLATFORM
        calls == CallMethods(<<"get_all_capabilities", "get_server_url",
                               "get_platform", "get_device">>)
    IN  /\ gpc' = "done"
        /\ gplatform' = APPIUM_PLATFORM
        /\ gdevice' = APPIUM_DEVICE
        /\ IF bind # "none"
           THEN /\ gerr' = bind
                /\ UNCHANGED ctorVars
           ELSE /\ ConfigLoaderInit("None", plat, APPIUM_PLATFORM)
                /\ gerr' = IF kerr' # "none" THEN kerr' ELSE calls
        /\ gkeys' = IF gerr' = "none"
                    THEN {"capabilities", "server_url", "platform", "device"}
                    ELSE {}

\* the session has not asked for the config fixture
InitConfigFixtureVars ==
    /\ gpc = "idle"
    /\ gplatform = "unset"
    /\ gdevice = "unset"
    /\ gerr = "none"
    /\ gkeys = {}

(***************************************************************************)
(* The driver fixture (src/tests/conftest.py)                              *)
(***************************************************************************)
VARIABLES
    fpc,       \* where the driver fixture of the current test is: "idle",
               \* "created" (webdriver.Remote returned), "yielded" (the test
               \* body runs), "after_test", "finished"
    fplatform, \* config['platform'] of the session
    fremote,   \* the webdriver.Remote call that made the session
    sid,       \* the session of the current test (0: none)
    open,      \* the sessions that are open on the Appium server
    ntests,    \* the tests started so far
    foutcome   \* what pytest reports for the current test

fixtureVars == <<fpc, fplatform, fremote, sid, open, ntests, foutcome>>

\* the largest number of tests of a run
MaxTests == 3

\* the webdriver.Remote call the fixture ends up with: with options, or
\* with desired_capabilities in the else branch or in the except branch
RemoteCall(plat, importOK) ==
    IF lower(plat) \in {"android", "ios"}
    THEN IF importOK THEN "options" ELSE "legacy_desired_capabilities"
    ELSE "desired_capabilities"

\* the driver fixture up to webdriver.Remote(...): the session is created
\* or the call raises
DriverSetup(plat, importOK, remoteOK) ==
    /\ fpc \in {"idle", "finished"}
    /\ ntests < MaxTests
    /\ ntests' = ntests + 1
    /\ fplatform' = plat
    /\ fremote' = RemoteCall(plat, importOK)
    /\ IF remoteOK
       THEN /\ sid' = ntests + 1
            /\ open' = open \cup {ntests + 1}
            /\ fpc' = "created"
            /\ foutcome' = "none"
       ELSE /\ sid' = 0
            /\ open' = open
            /\ fpc' = "finished"
            /\ foutcome' = "error"

\* driver.reset() before the yield: it returns and the fixture yields the
\* driver, or it raises and the fixture function ends there
DriverReset(resetOK) ==
    /\ fpc = "created"
    /\ IF resetOK
       THEN /\ fpc' = "yielded"
            /\ foutcome' = foutcome
       ELSE /\ fpc' = "finished"
            /\ foutcome' = "error"
    /\ UNCHANGED <<fplatform, fremote, sid, open, ntests>>

\* the test body runs with the driver and passes or fails
TestBody(pass) ==
    /\ fpc = "yielded"
    /\ fpc' = "after_test"
    /\ foutcome' = IF pass THEN "passed" ELSE "failed"
    /\ UNCHANGED <<fplatform, fremote, sid, open, ntests>>

\* the code after the yield: if driver: driver.quit()
DriverTeardown ==
    /\ fpc = "after_test"
    /\ open' = open \ {sid}
    /\ fpc' = "finished"
    /\ UNCHANGED <<fplatform, fremote, sid, ntests, foutcome>>

\* no test has started
InitFixtureVars ==
    /\ fpc = "idle"
    /\ fplatform = "Android"
    /\ fremote = "none"
    /\ sid = 0
    /\ open = {}
    /\ ntests = 0
    /\ foutcome = "none"

(***************************************************************************)
(* AppiumWrapper (src/utils/appium_wrapper.py)                             *)
(***************************************************************************)
VARIABLES
    apc,       \* where the current wrapper call is: "idle", "wait" (in the
               \* wait before the interaction), "check" (in the presence
               \* check of scroll_to_element), "done"
    amethod,   \* the wrapper method the test code called
    avisible,  \* find_element's wait_for_visible argument
    aclear,    \* send_keys's clear_first argument
    adir,      \* scroll_to_element's direction argument
    amax,      \* scroll_to_element's max_swipes argument
    aattempt,  \* the presence checks scroll_to_element has started
    afoundAt,  \* the attempt at which a presence check returned True (0: none)
    alog,      \* the driver calls of the current wrapper call outside its
               \* waits, in order
    aresult    \* what the wrapper call gave its caller: a value or the
               \* exception raised

wrapperVars == <<apc, amethod, avisible, aclear, adir, amax, aattempt,
                 afoundAt, alog, aresult>>

\* the largest max_swipes a caller of scroll_to_element passes
MaxSwipes == 2

\* self.is_element_present(locator, timeout=2) in scroll_to_element
ScrollTimeout == 2

ActionMethods == {"find_element", "send_keys", "get_text", "click"}
IsMethods == {"is_element_present", "is_element_visible",
              "is_element_clickable"}
Directions == {"down", "left"}

\* the wait a wrapper method starts with
WaitMethodOf(meth, visible) ==
    CASE meth = "find_element" ->
            IF visible THEN "wait_for_element_visible"
            ELSE "wait_for_element_present"
      [] meth \in {"send_keys", "get_text", "scroll_to_element"} ->
            "wait_for_element_visible"
      [] meth \in {"click", "is_element_clickable"} ->
            "wait_for_element_clickable"
      [] meth = "is_element_present" -> "wait_for_element_present"
      [] OTHER -> "wait_for_element_visible"

\* self.driver.find_element(*locator) when the driver shows obs
FindOutcome(obs) ==
    CASE obs = "absent" -> "NoSuchElementException"
      [] obs = "broken" -> "WebDriverException"
      [] OTHER -> "element"

\* element.clear() / send_keys / click / text: done, or the element went
\* stale in between
Interact(ok, value) ==
    IF ok THEN value ELSE "StaleElementReferenceException"

\* a faulty variant of AfterWait: the result of the wait is not looked at
AfterWaitUnchecked(meth, wr) ==
    IF meth \in IsMethods THEN wr
    ELSE IF wr \in {"True", "False"} THEN "proceed" ELSE wr

\* a faulty variant of AfterWait: the is_element_* methods raise on timeout
AfterWaitRaising(meth, wr) ==
    IF wr = "True" THEN (IF meth \in IsMethods THEN wr ELSE "proceed")
    ELSE IF wr = "False" THEN "TimeoutException" ELSE wr

\* What a wrapper method does once its wait gave wr ("True", "False" or
\* the exception raised): "proceed" to the interaction, or the value
\* returned or exception raised at once.  click polls WebDriverWait.until
\* itself: its wait ending by the deadline ("False") is the
\* TimeoutException of until.
AfterWait(meth, wr) ==
    IF meth \in IsMethods THEN wr
    ELSE IF wr = "True" THEN "proceed"
    ELSE IF wr = "False" THEN "TimeoutException"
    ELSE wr

\* The part of a wrapper method after its wait: the result and the driver
\* calls made, when the driver shows obs at the lookup and the interaction
\* with the element goes through (ok) or not.
Finish(meth, clear, wr, obs, ok) ==
    LET aw == AfterWait(meth, wr)
        f == FindOutcome(obs)
    IN  IF aw # "proceed" THEN [result |-> aw, log |-> <<>>]
        ELSE IF meth = "click"
        THEN [result |-> Interact(ok, "None"), log |-> <<"click">>]
        ELSE IF f # "element"
        THEN [result |-> f, log |-> <<"find_element">>]
        ELSE IF meth = "get_text"
        THEN [result |-> Interact(ok, "text"),
              log |-> <<"find_element", "text">>]
        ELSE IF meth = "send_keys"
        THEN IF clear
             THEN IF ok
                  THEN [result |-> "None",
                        log |-> <<"find_element", "clear", "send_keys">>]
                  ELSE [result |-> "StaleElementReferenceException",
                        log |-> <<"find_element", "clear">>]
             ELSE [result |-> Interact(ok, "None"),
                   log |-> <<"find_element", "send_keys">>]
        ELSE [result |-> "element", log |-> <<"find_element">>]

\* WebDriverWait(self.driver, timeout).until(...) in click: the timeout is
\* taken as it is
StartRawWait(m, pred, t) ==
    /\ wpc' = "polling"
    /\ wmethod' = m
    /\ wpred' = pred
    /\ wtimeout' = t
    /\ wend' = t * TicksPerSec
    /\ wclock' = 0
    /\ wevals' = 0
    /\ wlast' = "none"
    /\ wsawTrue' = FALSE
    /\ wafterTrue' = 0
    /\ wexpired' = FALSE
    /\ wresult' = "none"
    /\ UNCHANGED wdefault

\* test code calls one of find_element, send_keys, get_text, click,
\* is_element_present, is_element_visible, is_element_clickable with
\* timeout t
WrapperCall(meth, visible, clear, t) ==
    /\ apc \in {"idle", "done"}
    /\ meth # "find_element" => visible
    /\ meth # "send_keys" => clear
    /\ IF meth = "click"
       THEN /\ t # None
            /\ StartRawWait(WaitMethodOf(meth, visible), "wrapper", t)
       ELSE StartWait(WaitMethodOf(meth, visible), "wrapper", t)
    /\ apc' = "wait"
    /\ amethod' = meth
    /\ avisible' = visible
    /\ aclear' = clear
    /\ alog' = <<>>
    /\ aresult' = "none"
    /\ adir' = "none"
    /\ amax' = 0
    /\ aattempt' = 0
    /\ afoundAt' = 0

\* a poll of the wait of the current wrapper call: the driver shows obs
WrapperPoll(obs) ==
    /\ apc \in {"wait", "check"}
    /\ wpc = "polling"
    /\ wpred = "wrapper"
    /\ \E o \in CondOutcomes(wmethod, obs, FALSE) :
          PollStep(o, Awaited(wmethod, obs, FALSE), 0)
    /\ UNCHANGED wrapperVars

\* the wait of the current wrapper call is over: the rest of the method
WrapperFinish(obs, ok) ==
    /\ apc = "wait"
    /\ wpc = "done"
    /\ LET fin == Finish(IF amethod = "scroll_to_element"
                         THEN "find_element" ELSE amethod,
                         aclear, wresult, obs, ok)
       IN  /\ aresult' = fin.result
           /\ alog' = alog \o fin.log
    /\ apc' = "done"
    /\ UNCHANGED <<amethod, avisible, aclear, adir, amax, aattempt, afoundAt,
                   waitVars>>

\* test code calls scroll_to_element(locator, direction, max_swipes): the
\* loop is entered with the first presence check, or not at all
ScrollCall(direction, max_swipes) ==
    /\ apc \in {"idle", "done"}
    /\ amethod' = "scroll_to_element"
    /\ avisible' = TRUE
    /\ aclear' = TRUE
    /\ adir' = direction
    /\ amax' = max_swipes
    /\ alog' = <<>>
    /\ afoundAt' = 0
    /\ IF max_swipes = 0
       THEN /\ apc' = "done"
            /\ aresult' = "None"
            /\ aattempt' = 0
            /\ UNCHANGED waitVars
       ELSE /\ apc' = "check"
            /\ aresult' = "none"
            /\ aattempt' = 1
            /\ StartWait("wait_for_element_present", "wrapper", ScrollTimeout)

\* one round of the loop of scroll_to_element after its presence check:
\* on True self.find_element(locator) starts, on False the window size is
\* read and one swipe made (either may fail), then the next round starts
\* or the loop is over
ScrollChecked(sizeOK, swipeOK) ==
    /\ apc = "check"
    /\ wpc = "done"
    /\ IF wresult = "True"
       THEN /\ afoundAt' = aattempt
            /\ apc' = "wait"
            /\ StartWait("wait_for_element_visible", "wrapper", None)
            /\ UNCHANGED <<alog, aresult, aattempt>>
       ELSE IF wresult # "False"
       THEN /\ apc' = "done"
            /\ aresult' = wresult
            /\ UNCHANGED <<alog, aattempt, afoundAt, waitVars>>
       ELSE IF ~sizeOK
       THEN /\ apc' = "done"
            /\ aresult' = "WebDriverException"
            /\ alog' = Append(alog, "get_window_size")
            /\ UNCHANGED <<aattempt, afoundAt, waitVars>>
       ELSE IF ~swipeOK
       THEN /\ apc' = "done"
            /\ aresult' = "WebDriverException"
            /\ alog' = alog \o <<"get_window_size", "swipe">>
            /\ UNCHANGED <<aattempt, afoundAt, waitVars>>
       ELSE /\ alog' = alog \o <<"get_window_size", "swipe">>
            /\ afoundAt' = afoundAt
            /\ IF aattempt < amax
               THEN /\ aattempt' = aattempt + 1
                    /\ UNCHANGED <<apc, aresult>>
                    /\ StartWait("wait_for_element_present", "wrapper",
                                 ScrollTimeout)
               ELSE /\ apc' = "done"
                    /\ aresult' = "None"
                    /\ UNCHANGED <<aattempt, waitVars>>
    /\ UNCHANGED <<amethod, avisible, aclear, adir, amax>>

\* AppiumWrapper(driver, wait_utils): nothing called yet
InitWrapperVars ==
    /\ apc = "idle"
    /\ amethod = "none"
    /\ avisible = TRUE
    /\ aclear = TRUE
    /\ adir = "none"
    /\ amax = 0
    /\ aattempt = 0
    /\ afoundAt = 0
    /\ alog = <<>>
    /\ aresult = "none"

(***************************************************************************)
(* The specifications                                                      *)
(***************************************************************************)
vars == <<waitVars, pageVars, dataVars, capsVars, ctorVars, fixtureVars, wrapperVars, testCaseVars, configFixtureVars>>

\* the variables of the other components
notWait == <<pageVars, dataVars, capsVars, ctorVars, fixtureVars, wrapperVars, testCaseVars, configFixtureVars>>
notPage == <<dataVars, capsVars, ctorVars, fixtureVars, wrapperVars, testCaseVars, configFixtureVars>>
notData == <<waitVars, pageVars, capsVars, ctorVars, fixtureVars, wrapperVars, testCaseVars, configFixtureVars>>
notCaps == <<waitVars, pageVars, dataVars, ctorVars, fixtureVars, wrapperVars, testCaseVars, configFixtureVars>>
notCtor == <<waitVars, pageVars, dataVars, capsVars, fixtureVars, wrapperVars, testCaseVars, configFixtureVars>>
notFixture == <<waitVars, pageVars, dataVars, capsVars, ctorVars, wrapperVars, testCaseVars, configFixtureVars>>
notWrapper == <<pageVars, dataVars, capsVars, ctorVars, fixtureVars, testCaseVars, configFixtureVars>>
notTestCase == <<waitVars, pageVars, capsVars, ctorVars, fixtureVars, wrapperVars, configFixtureVars>>
notResolve == <<waitVars, pageVars, dataVars, capsVars, ctorVars, fixtureVars, wrapperVars, configFixtureVars>>
notConfigFixture == <<waitVars, pageVars, dataVars, capsVars, fixtureVars, wrapperVars, testCaseVars>>

\* the loader is not used: an empty data directory
InitDataIdle ==
    /\ fs = [n \in JsonNames |-> [kind |-> "absent", doc |-> EmptyMap]]
    /\ InitDataVars

\* WaitUtils(driver, timeout) as the test code builds it
InitWait ==
    /\ wdefault \in Timeouts
    /\ InitWaitCall
    /\ InitPageVars
    /\ InitDataIdle
    /\ InitCapsIdle
    /\ InitCtorIdle
    /\ InitFixtureVars
    /\ InitWrapperVars
    /\ InitConfigFixtureVars
    /\ InitTestCaseVars

NextWait ==
    \/ \E m \in Methods, t \in {None} \cup Timeouts :
          WaitCall(m, t) /\ UNCHANGED notWait
    \/ \E obs \in ElemObs, txt \in BOOLEAN :
          WaitPollElement(obs, txt) /\ UNCHANGED notWait
    \/ \E p \in PredObs : WaitPollCustom(p) /\ UNCHANGED notWait

SpecWait == InitWait /\ [][NextWait]_vars

\* BasePage.__init__ builds its own WaitUtils(driver)
InitPage ==
    /\ InitPageVars
    /\ InitWaitCall
    /\ wdefault = DefaultTimeout
    /\ InitDataIdle
    /\ InitCapsIdle
    /\ InitCtorIdle
    /\ InitFixtureVars
    /\ InitWrapperVars
    /\ InitConfigFixtureVars
    /\ InitTestCaseVars

NextPage ==
    \/ \E page \in Pages, w \in BOOLEAN :
          PageInit(page, w) /\ UNCHANGED notPage
    \/ PagePoll /\ UNCHANGED notPage
    \/ \E valid \in BOOLEAN : login(valid) /\ UNCHANGED notPage
    \/ AppStep /\ UNCHANGED notPage

SpecPage == InitPage /\ [][NextPage]_vars

\* a TestDataLoader on a data directory in any state
InitData ==
    /\ fs \in Directories
    /\ InitDataVars
    /\ InitWaitCall
    /\ wdefault = DefaultTimeout
    /\ InitPageVars
    /\ InitCapsIdle
    /\ InitCtorIdle
    /\ InitFixtureVars
    /\ InitWrapperVars
    /\ InitConfigFixtureVars
    /\ InitTestCaseVars

NextData ==
    \/ \E f \in FileNames, useCache \in BOOLEAN :
          LoadTestData(f, useCache) /\ UNCHANGED notData
    \/ \E f \in FileNames, c \in CaseNames :
          get_test_case_data(f, c) /\ UNCHANGED notData
    \/ \E f \in FileNames, a \in EnvArgs :
          get_environment_data(f, a[1], a[2]) /\ UNCHANGED notData
    \/ clear_cache /\ UNCHANGED notData
    \/ \E n \in JsonNames, st \in FileStates :
          EditFile(n, st) /\ UNCHANGED notData

SpecData == InitData /\ [][NextData]_vars

\* a ConfigLoader on any configuration
InitConfig ==
    /\ InitCaps
    /\ InitWaitCall
    /\ wdefault = DefaultTimeout
    /\ InitPageVars
    /\ InitDataIdle
    /\ InitCtorIdle
    /\ InitFixtureVars
    /\ InitWrapperVars
    /\ InitConfigFixtureVars
    /\ InitTestCaseVars

NextConfig ==
    \/ GetAllCapabilities /\ UNCHANGED notCaps

SpecConfig == InitConfig /\ [][NextConfig]_vars

\* ConfigLoader(...) calls on a config directory in any state
InitCtor ==
    /\ cfs \in ConfigDirectories
    /\ InitCtorVars
    /\ InitWaitCall
    /\ wdefault = DefaultTimeout
    /\ InitPageVars
    /\ InitDataIdle
    /\ InitCapsIdle
    /\ InitFixtureVars
    /\ InitWrapperVars
    /\ InitConfigFixtureVars
    /\ InitTestCaseVars

NextCtor ==
    \/ \E p \in {"None", CustomConfig}, plat \in PlatformArgs,
          e \in EnvPlatforms :
          ConfigLoaderInit(p, plat, e) /\ UNCHANGED notCtor
    \/ GetSection /\ UNCHANGED notCtor
    \/ \E n \in ConfigNames, st \in ConfigStates :
          EditConfigFile(n, st) /\ UNCHANGED notCtor

SpecCtor == InitCtor /\ [][NextCtor]_vars

\* a pytest run: the driver fixture around each test
InitFixture ==
    /\ InitFixtureVars
    /\ InitWaitCall
    /\ wdefault = DefaultTimeout
    /\ InitPageVars
    /\ InitDataIdle
    /\ InitCapsIdle
    /\ InitCtorIdle
    /\ InitWrapperVars
    /\ InitConfigFixtureVars
    /\ InitTestCaseVars

NextFixture ==
    \/ \E plat \in Platforms, importOK \in BOOLEAN, remoteOK \in BOOLEAN :
          DriverSetup(plat, importOK, remoteOK) /\ UNCHANGED notFixture
    \/ \E resetOK \in BOOLEAN : DriverReset(resetOK) /\ UNCHANGED notFixture
    \/ \E pass \in BOOLEAN : TestBody(pass) /\ UNCHANGED notFixture
    \/ DriverTeardown /\ UNCHANGED notFixture

SpecFixture == InitFixture /\ [][NextFixture]_vars

\* an AppiumWrapper on a WaitUtils with any default timeout
InitWrapper ==
    /\ InitWrapperVars
    /\ InitConfigFixtureVars
    /\ InitTestCaseVars
    /\ wdefault \in Timeouts
    /\ InitWaitCall
    /\ InitPageVars
    /\ InitDataIdle
    /\ InitCapsIdle
    /\ InitCtorIdle
    /\ InitFixtureVars

NextWrapper ==
    \/ \E meth \in ActionMethods \cup IsMethods, visible \in BOOLEAN,
          clear \in BOOLEAN, t \in {None} \cup Timeouts :
          WrapperCall(meth, visible, clear, t) /\ UNCHANGED notWrapper
    \/ \E obs \in ElemObs : WrapperPoll(obs) /\ UNCHANGED notWrapper
    \/ \E obs \in ElemObs, ok \in BOOLEAN :
          WrapperFinish(obs, ok) /\ UNCHANGED notWrapper
    \/ \E d \in Directions, n \in 0..MaxSwipes :
          ScrollCall(d, n) /\ UNCHANGED notWrapper
    \/ \E sizeOK \in BOOLEAN, swipeOK \in BOOLEAN :
          ScrollChecked(sizeOK, swipeOK) /\ UNCHANGED notWrapper

SpecWrapper == InitWrapper /\ [][NextWrapper]_vars

\* the resolution of the case name for any function name and marker
InitResolve ==
    /\ tpc = "start"
    /\ tname \in FunctionNames
    /\ tmarker \in Markers
    /\ tcase = NoName
    /\ tfile = "none"
    /\ tsource = "none"
    /\ toutcome = "none"
    /\ tdata = EmptyMap
    /\ wdefault = DefaultTimeout
    /\ InitWaitCall
    /\ InitPageVars
    /\ InitDataIdle
    /\ InitCapsIdle
    /\ InitCtorIdle
    /\ InitFixtureVars
    /\ InitWrapperVars
    /\ InitConfigFixtureVars

NextResolve ==
    \/ Resolve /\ UNCHANGED notResolve

SpecResolve == InitResolve /\ [][NextResolve]_vars

\* a session of tests that use the test_case fixture, on a data directory
\* in any state that may change between the tests
InitTestCase ==
    /\ fs \in Directories
    /\ InitDataVars
    /\ InitTestCaseVars
    /\ wdefault = DefaultTimeout
    /\ InitWaitCall
    /\ InitPageVars
    /\ InitCapsIdle
    /\ InitCtorIdle
    /\ InitFixtureVars
    /\ InitWrapperVars
    /\ InitConfigFixtureVars

NextTestCase ==
    \/ \E n \in SessionNames, m \in SessionMarkers :
          TestCaseFixture(n, m) /\ UNCHANGED notTestCase
    \/ \E n \in JsonNames, st \in FileStates :
          EditFile(n, st) /\ UNCHANGED <<notTestCase, testCaseVars, configFixtureVars>>

SpecTestCase == InitTestCase /\ [][NextTestCase]_vars

\* a session that asks for the config fixture, on a config directory in
\* any state
InitConfigFixture ==
    /\ cfs \in ConfigDirectories
    /\ InitCtorVars
    /\ InitConfigFixtureVars
    /\ wdefault = DefaultTimeout
    /\ InitWaitCall
    /\ InitPageVars
    /\ InitDataIdle
    /\ InitCapsIdle
    /\ InitFixtureVars
    /\ InitWrapperVars
    /\ InitTestCaseVars

NextConfigFixture ==
    \/ \E p \in EnvPlatforms, d \in EnvDevices :
          ConfigFixture(p, d) /\ UNCHANGED notConfigFixture
    \/ \E n \in ConfigNames, st \in ConfigStates :
          EditConfigFile(n, st)
             /\ UNCHANGED <<notConfigFixture, configFixtureVars>>

SpecConfigFixture == InitConfigFixture /\ [][NextConfigFixture]_vars

\* a TestDataLoader asked for single cases and for all cases of its files
InitCases ==
    /\ fs \in Directories
    /\ InitDataVars
    /\ wdefault = DefaultTimeout
    /\ InitWaitCall
    /\ InitPageVars
    /\ InitCapsIdle
    /\ InitCtorIdle
    /\ InitFixtureVars
    /\ InitWrapperVars
    /\ InitTestCaseVars
    /\ InitConfigFixtureVars

NextCases ==
    \/ \E f \in FileNames : get_all_test_cases(f) /\ UNCHANGED notData
    \/ \E f \in FileNames, c \in CaseNames :
          get_test_case_data(f, c) /\ UNCHANGED notData
    \/ \E n \in JsonNames, st \in FileStates :
          EditFile(n, st) /\ UNCHANGED notData

SpecCases == InitCases /\ [][NextCases]_vars

(***************************************************************************)
(* Claims about the page-object lifecycle (SpecPage)                       *)
(***************************************************************************)
\* C1: a page object constructed with wait_for_load is handed to the test
\* code only after its is_page_loaded was observed true; otherwise the
\* construction fails.
C1_HeldOnlyAfterLoad ==
    \A page \in held \cap heldWaits : page \in heldLoaded

\* C2: LoginPage.login returns a HomePage only when the home page's load
\* predicate became true, and never after invalid credentials.
C2_NoHomePageUnlessLoaded ==
    (pby = "login" /\ plast = "returned")
        => ("HomePage" \in heldLoaded /\ creds # "invalid")

(***************************************************************************)
(* Claims about WaitUtils (SpecWait)                                       *)
(***************************************************************************)
Exceptions == {"TimeoutException", "NoSuchElement", "StaleElement",
               "WebDriverException", "OtherError"}

\* C3: a wait method whose deadline expired returns False, it never raises
\* the timeout; it returns True only if the awaited condition was observed
\* to hold at some poll of the wait.
C3_TimeoutIsFalse ==
    wpc = "done" =>
        /\ wexpired => wresult = "False"
        /\ wresult # "TimeoutException"
        /\ wresult = "True" => wsawTrue

C3_Witness ==
    /\ wpc = "done"
    /\ wexpired
    /\ wresult = "False"
    /\ wevals > 1

\* C4: a per-call timeout T >= 0, T = 0 included, is the deadline of the
\* wait: with a condition that never holds the wait returns False once T
\* has elapsed, at most one polling interval later.
C4_PerCallTimeoutIsDeadline ==
    (wpc \in {"polling", "done"} /\ wtimeout # None) =>
        /\ wend = wtimeout * TicksPerSec
        /\ (wpc = "done" /\ wexpired) =>
              /\ wresult = "False"
              /\ wclock >= wtimeout * TicksPerSec
              /\ wclock <= wtimeout * TicksPerSec + 1

\* C5: once the polled condition has evaluated to true the wait has
\* returned True at that very poll: the condition is not evaluated again
\* and the wait does not go on to the deadline.
C5_ReturnsAtFirstTrue ==
    wsawTrue =>
        /\ wpc = "done"
        /\ wresult = "True"
        /\ wafterTrue = 0

C5_Witness ==
    /\ wsawTrue
    /\ wresult = "True"
    /\ wevals > 1
    /\ wclock < wend

\* C6 as stated: in wait_for_custom_condition every exception the predicate
\* raises ends the wait and reaches the caller; only the element-state
\* helpers take the driver's not-found error as "not yet met".
C6_PredicateErrorsPropagate ==
    /\ (wmethod = "wait_for_custom_condition" /\ wlast \in Exceptions)
           => (wpc = "done" /\ wresult = wlast)
    /\ (wmethod # "wait_for_custom_condition" /\ wlast = "NoSuchElement")
           => wresult \notin Exceptions

\* C6 as amended: in wait_for_custom_condition an exception raised by the
\* predicate ends the wait and reaches the caller unless it is the driver's
\* not-found error, which is taken as "not yet met" as in the element-state
\* helpers (the wait polls on and can only end with True or False), or a
\* timeout error, which ends the wait with the result False.
C6_PredicateErrorsAmended ==
    /\ (wmethod = "wait_for_custom_condition" /\ wlast \in Exceptions) =>
          CASE wlast = "NoSuchElement" ->
                   \/ wpc = "polling" /\ wresult = "none"
                   \/ wpc = "done" /\ wexpired /\ wresult = "False"
            [] wlast = "TimeoutException" ->
                   wpc = "done" /\ ~wexpired /\ wresult = "False"
            [] OTHER -> wpc = "done" /\ wresult = wlast
    /\ (wmethod # "wait_for_custom_condition" /\ wlast = "NoSuchElement")
           => wresult \notin Exceptions

C6_Witness ==
    /\ wmethod = "wait_for_custom_condition"
    /\ wlast = "OtherError"
    /\ wresult = "OtherError"
    /\ wevals > 1

(***************************************************************************)
(* Claims about TestDataLoader (SpecData)                                  *)
(***************************************************************************)
\* the document the last lookup worked on: the file's when the lookup went
\* to the file system, the cached one otherwise
LookedUpDoc ==
    IF lread THEN fs[append_json(lfile)].doc ELSE cache[lfile]

\* C7: after a successful cached load of a file name every later lookup of
\* that name, with or without .json, is served from the cache until
\* clear_cache; so two get_test_case_data calls in a row for the same
\* (file, case) return equal mappings.
C7_ServedFromCache == ~reread /\ ~unstable

\* C8: get_test_case_data fails with FileNotFoundError exactly when it goes
\* to the file system and the file is absent, and with KeyError exactly when
\* the document it looks in has a test_cases section without the case; the
\* two are never taken for one another, and the step that fails leaves the
\* cache as it found it: a missing file leaves the cache as it was before
\* the call, a missing case leaves it as the load of the file made it (the
\* entry of that file holds the file's document, every other entry is as
\* before).
C8_LookupFailures ==
    /\ [](  (lop = "get_test_case_data" /\ ~edited) =>
              LET file == fs[append_json(lfile)]
                  found == ~lread \/ file.kind = "json"
              IN  /\ lerr \in {"none", "FileNotFoundError", "KeyError",
                               "ValueError"}
                  /\ (lerr = "FileNotFoundError")
                        <=> (lread /\ file.kind = "absent")
                  /\ (lerr = "KeyError")
                        <=> /\ found
                            /\ "test_cases" \in DOMAIN LookedUpDoc
                            /\ lkey \notin DOMAIN LookedUpDoc.test_cases)
    /\ [][ (lop' = "get_test_case_data" /\ ~edited' /\ lerr' # "none") =>
              LET name == append_json(lfile')
                  loaded == lread' /\ fs[name].kind = "json"
              IN  /\ DOMAIN cache \subseteq DOMAIN cache'
                  /\ \A k \in DOMAIN cache' \ {name} :
                        k \in DOMAIN cache /\ cache'[k] = cache[k]
                  /\ loaded => (name \in DOMAIN cache'
                                /\ cache'[name] = fs[name].doc)
                  /\ ~loaded => cache' = cache
                  /\ lerr' = "FileNotFoundError" => cache' = cache ]_vars

C8_Witness ==
    /\ lop = "get_test_case_data"
    /\ ~edited
    /\ lerr = "KeyError"
    /\ lread
    /\ lfile = "login"
    /\ "other.json" \in DOMAIN cache

\* C9: get_environment_data returns the shallow merge of the default
\* environment's mapping with the named environment's, the named one
\* winning on each key; resolving "default" returns the default mapping;
\* no resolution modifies a stored document (default {a:1,b:2} and staging
\* {b:3} give {a:1,b:3} for staging and {a:1,b:2} for default).
C9_EnvironmentMerge ==
    /\ \A k \in DOMAIN cache : cache[k] \in Docs
    /\ (lop = "get_environment_data" /\ ~edited /\ lerr = "none") =>
          LET envs == DictGet(LookedUpDoc, "environments")
              def == DictGet(envs, "default")
              named == DictGet(envs, lkey)
          IN  /\ DOMAIN lres = DOMAIN def \cup DOMAIN named
              /\ \A k \in DOMAIN named : lres[k] = named[k]
              /\ \A k \in DOMAIN def \ DOMAIN named : lres[k] = def[k]
              /\ lkey = "default" => lres = def
              /\ (LookedUpDoc = DocFull /\ lkey = "staging")
                    => lres = [a |-> 1, b |-> 3]
              /\ (LookedUpDoc = DocFull /\ lkey = "default")
                    => lres = [a |-> 1, b |-> 2]

C9_Witness ==
    /\ lop = "get_environment_data"
    /\ ~edited
    /\ lerr = "none"
    /\ ~lread
    /\ lkey = "staging"
    /\ lres = [a |-> 1, b |-> 3]
    /\ cache[lfile] = DocFull

(***************************************************************************)
(* Claims about ConfigLoader (SpecConfig)                                  *)
(***************************************************************************)
\* the sub-map of platform capabilities get_all_capabilities lays on top
PlatformSubMap ==
    CASE lower(platform) = "android" -> androidCaps
      [] lower(platform) = "ios" -> iosCaps
      [] OTHER -> EmptyMap

\* the platform-specific keys the platform branch sets itself
BranchKeys ==
    CASE lower(platform) = "android" ->
             {"automationName"}
             \cup (IF GetOr(cfgApp, "package_name", "") # ""
                   THEN {"appPackage"} ELSE {})
             \cup (IF GetOr(cfgApp, "activity_name", "") # ""
                   THEN {"appActivity"} ELSE {})
      [] lower(platform) = "ios" ->
             {"automationName"}
             \cup (IF GetOr(cfgApp, "bundle_id", "") # ""
                   THEN {"bundleId"} ELSE {})
      [] OTHER -> {}

\* the value the platform branch gives a key it sets
BranchValue(k) ==
    CASE k = "automationName" ->
             GetOr(cfgEnv, "automation_name",
                   IF lower(platform) = "android" THEN "UiAutomator2"
                   ELSE "XCUITest")
      [] k = "appPackage" -> cfgApp["package_name"]
      [] k = "appActivity" -> cfgApp["activity_name"]
      [] OTHER -> cfgApp["bundle_id"]

\* C10 as stated: every key of the JSON capabilities section that is also a
\* derived default holds the JSON capabilities value in the result.
C10_JsonCapabilitiesWin ==
    cpc = "called" =>
        \A k \in DOMAIN cfgCaps \cap DerivedKeys :
            capabilities[k] = cfgCaps[k]

\* C10 as amended: a key of the JSON capabilities section that is also a
\* derived default holds the JSON capabilities value in the result unless a
\* later step sets it: the platform branch (automationName on Android and
\* iOS, appPackage / appActivity / bundleId from a non-empty app value) or
\* the platform's android_capabilities / ios_capabilities sub-map.  The base
\* defaults platformName, platformVersion, deviceName and app are only
\* overridden by that sub-map.
C10_JsonCapabilitiesAmended ==
    cpc = "called" =>
        \A k \in DOMAIN cfgCaps \cap DerivedKeys :
            IF k \in DOMAIN PlatformSubMap
            THEN capabilities[k] = PlatformSubMap[k]
            ELSE IF k \in BranchKeys
            THEN /\ k \in PlatformKeys
                 /\ capabilities[k] = BranchValue(k)
                 /\ capabilities[k] # cfgCaps[k]
            ELSE capabilities[k] = cfgCaps[k]

C10_Witness ==
    /\ cpc = "called"
    /\ lower(platform) = "android"
    /\ DOMAIN cfgCaps = {"platformName", "automationName"}
    /\ androidCaps = EmptyMap
    /\ capabilities["platformName"] = "from_capabilities"
    /\ capabilities["automationName"] = "UiAutomator2"

\* the android_capabilities sub-map overrides none of the three Android
\* capabilities and the environment section sets no automation_name
NoAndroidOverride ==
    /\ "automation_name" \notin DOMAIN cfgEnv
    /\ DOMAIN androidCaps
         \cap {"appPackage", "appActivity", "automationName"} = {}

\* the value of capability k when only the configured sections hold it:
\* the ios_capabilities sub-map first, then the JSON capabilities section
IosConfigured(k) ==
    IF k \in DOMAIN iosCaps THEN capabilities[k] = iosCaps[k]
    ELSE IF k \in DOMAIN cfgCaps THEN capabilities[k] = cfgCaps[k]
    ELSE k \notin DOMAIN capabilities

\* C11: on Android (in any letter case) with a non-empty package_name and
\* activity_name and no automation_name or android_capabilities override,
\* the result holds appPackage and appActivity with those values and
\* automationName "UiAutomator2"; on iOS the platform branch adds no
\* appPackage / appActivity, and adds bundleId only for a non-empty
\* bundle_id.
C11_PlatformCapabilities ==
    cpc = "called" =>
        /\ ( /\ lower(platform) = "android"
             /\ GetOr(cfgApp, "package_name", "") # ""
             /\ GetOr(cfgApp, "activity_name", "") # ""
             /\ NoAndroidOverride )
           => /\ {"appPackage", "appActivity", "automationName"}
                    \subseteq DOMAIN capabilities
              /\ capabilities["appPackage"] = cfgApp["package_name"]
              /\ capabilities["appActivity"] = cfgApp["activity_name"]
              /\ capabilities["automationName"] = "UiAutomator2"
        /\ lower(platform) = "ios"
           => /\ IosConfigured("appPackage")
              /\ IosConfigured("appActivity")
              /\ IF GetOr(cfgApp, "bundle_id", "") # ""
                 THEN /\ "bundleId" \in DOMAIN capabilities
                      /\ "bundleId" \notin DOMAIN iosCaps
                            => capabilities["bundleId"] = cfgApp["bundle_id"]
                 ELSE IosConfigured("bundleId")

C11_Witness ==
    /\ cpc = "called"
    /\ platform = "android"
    /\ NoAndroidOverride
    /\ "appPackage" \in DOMAIN cfgCaps
    /\ "appPackage" \in DOMAIN capabilities
    /\ "appActivity" \in DOMAIN capabilities
    /\ capabilities["appPackage"] = "com.example.app"
    /\ capabilities["appActivity"] = ".MainActivity"
    /\ capabilities["automationName"] = "UiAutomator2"

\* C12 as stated: the platform get_platform reports is the platform
\* argument when given, else APPIUM_PLATFORM when set, else the platform the
\* loaded file declares, else "Android".
C12_PlatformResolution ==
    kpc = "constructed" =>
        get_platform =
            IF kargPlatform # "None" THEN kargPlatform
            ELSE IF kenv # "unset" THEN kenv
            ELSE IF kconfig.platform # "none" THEN kconfig.platform
            ELSE "Android"

\* the platform the file choice goes by: the argument, else APPIUM_PLATFORM
ChoicePlatform == IF kargPlatform # "None" THEN kargPlatform ELSE kenv

\* C13: the file loaded is config_path when given, else the file of the
\* platform (argument, else APPIUM_PLATFORM) when it exists, else
\* app_config.json; a missing chosen file makes the constructor raise
\* FileNotFoundError and a chosen file that is not JSON makes it raise
\* ValueError, so that no section getter on a constructed loader fails
\* because of such a file.
C13_ConfigFileChoice ==
    /\ (kpc # "none" /\ ~kedited) =>
        /\ kpath =
              IF kargPath # "None" THEN kargPath
              ELSE IF /\ ChoicePlatform # "unset"
                      /\ exists(cfs, PlatformConfig(lower(ChoicePlatform)))
              THEN PlatformConfig(lower(ChoicePlatform))
              ELSE DefaultConfig
        /\ cfs[kpath].kind = "absent"
              => (kpc = "failed" /\ kerr = "FileNotFoundError")
        /\ cfs[kpath].kind = "malformed"
              => (kpc = "failed" /\ kerr = "ValueError")
        /\ cfs[kpath].kind = "json" => kpc = "constructed"
    /\ kaccess \notin {"none", "ok"} => kconfig.kind = "not_object"

C13_Witness ==
    /\ kpc = "failed"
    /\ kerr = "ValueError"
    /\ kargPath = "None"
    /\ kargPlatform = "None"
    /\ kenv = "iOS"
    /\ kpath = "app_config_ios.json"
    /\ ~kedited

\* C14 as stated: once the driver fixture of a test has finished, on any
\* path (test passed, test failed, reset before the test failed), no
\* session is open.
C14_SessionReleased ==
    fpc \in {"idle", "finished"} => open = {}

\* C15: when the wait of find_element, send_keys, get_text or click ends by
\* its deadline, the method raises TimeoutException and has made no driver
\* call on the element: no lookup, clear, key input, click or text read.
C15_ActionsRaiseOnTimeout ==
    (apc = "done" /\ amethod \in ActionMethods /\ wexpired) =>
        /\ aresult = "TimeoutException"
        /\ alog = <<>>

C15_Witness ==
    /\ apc = "done"
    /\ amethod = "send_keys"
    /\ wexpired
    /\ wevals > 1
    /\ aresult = "TimeoutException"

\* C16: is_element_present, is_element_visible and is_element_clickable
\* give their caller exactly what the wait of WaitUtils gave, False when the
\* wait ended by its deadline, and make no driver call outside the wait.
C16_IsMethodsReturnWait ==
    (apc = "done" /\ amethod \in IsMethods) =>
        /\ aresult = wresult
        /\ alog = <<>>
        /\ wexpired => aresult = "False"
        /\ aresult = "True" => wsawTrue

C16_Witness ==
    /\ apc = "done"
    /\ amethod = "is_element_clickable"
    /\ wexpired
    /\ wevals > 1
    /\ aresult = "False"

\* the swipes the current wrapper call has made
SwipeCount == Cardinality({i \in DOMAIN alog : alog[i] = "swipe"})

\* C17 as stated, a failing driver (WebDriverException) left aside:
\* scroll_to_element ends within max_swipes presence checks, with one swipe
\* after each check that did not find the element, and either returns the
\* element at the first check that found it or returns None after
\* max_swipes checks.
C17_ScrollOutcomes ==
    (apc = "done" /\ amethod = "scroll_to_element"
        /\ aresult # "WebDriverException") =>
        /\ aattempt <= amax
        /\ aresult \in {"element", "None"}
        /\ aresult = "element" =>
              (afoundAt = aattempt /\ SwipeCount = aattempt - 1)
        /\ aresult = "None" =>
              (afoundAt = 0 /\ aattempt = amax /\ SwipeCount = amax)

\* the name the marker of the test at hand gives, if any
MarkerName ==
    IF tmarker.present /\ tmarker.hasArg THEN tmarker.arg ELSE NoName

\* C18 as stated: the case name is the marker's first argument when the
\* marker gives one, otherwise the entry of the fixed mapping for the
\* function name, and the inferred name only when neither gives a name; the
\* data file is the marker's data_file, "login_test_data" without it.
C18_Precedence ==
    tpc = "resolved" =>
        /\ tcase = IF MarkerName # NoName THEN MarkerName
                   ELSE IF test_case_mapping(tname) # NoName
                   THEN test_case_mapping(tname)
                   ELSE InferCase(tname)
        /\ tfile = IF tmarker.present /\ tmarker.data_file # "none"
                   THEN tmarker.data_file ELSE DefaultDataFile

\* word w is one of the words of the function name at hand
HasWord(w) == \E i \in DOMAIN tname : tname[i] = w

\* C19 as stated: for a test without marker and without mapping entry, a
\* name with the word invalid or wrong gives invalid_username, otherwise a
\* name with the word successful or valid gives valid_login, otherwise a
\* name with the word empty gives empty_credentials, and any other name
\* gives the function name without its test_ prefix.
C19_Inference ==
    (tpc = "resolved" /\ ~tmarker.present
        /\ test_case_mapping(tname) = NoName) =>
        tcase = IF HasWord("invalid") \/ HasWord("wrong")
                THEN InvalidUsername
                ELSE IF HasWord("successful") \/ HasWord("valid")
                THEN ValidLogin
                ELSE IF HasWord("empty") THEN EmptyCredentials
                ELSE Tail(tname)

\* C20: a case the document of the data file does not hold makes the test
\* skipped; a missing file, a file that is not JSON and a document without
\* test_cases make it end in error, never skipped; and the body of a test
\* that runs holds the mapping of the resolved case in the document of the
\* resolved file.
C20_SkipOnlyMissingCase ==
    (tpc = "resolved" /\ toutcome # "none" /\ ~edited) =>
        LET file == fs[append_json(tfile)]
            found == ~lread \/ file.kind = "json"
            key == CaseKey(tcase)
        IN  /\ lfile = tfile /\ lkey = key
            /\ toutcome \in {"run", "skipped", "error"}
            /\ ~found => toutcome = "error"
            /\ found =>
                 IF "test_cases" \notin DOMAIN LookedUpDoc
                 THEN toutcome = "error"
                 ELSE IF key \notin DOMAIN LookedUpDoc.test_cases
                 THEN toutcome = "skipped" /\ tdata = EmptyMap
                 ELSE /\ toutcome = "run"
                      /\ tdata = LookedUpDoc.test_cases[key]

C20_Witness ==
    /\ tpc = "resolved"
    /\ ~edited
    /\ toutcome = "skipped"
    /\ lerr = "KeyError"
    /\ tcase = EmptyCredentials
    /\ tsource = "mapping"
    /\ fs[append_json(tfile)].kind = "json"

\* every config file that exists is a JSON object, app_config.json among
\* them
ValidConfigFiles ==
    /\ cfs[DefaultConfig].kind = "json"
    /\ \A n \in ConfigNames : cfs[n].kind \in {"absent", "json"}

\* C21 as stated: with valid configuration files the config fixture ends
\* without error, APPIUM_PLATFORM and APPIUM_DEVICE set or not, and returns
\* a mapping with the keys capabilities, server_url, platform and device.
C21_ConfigFixtureCompletes ==
    (gpc = "done" /\ ValidConfigFiles) =>
        /\ gerr = "none"
        /\ gkeys = {"capabilities", "server_url", "platform", "device"}

\* C22 as stated, a failing driver (WebDriverException) left aside:
\* whatever the user interface does, the element going away between the
\* wait and the lookup included, find_element either returns an element the
\* driver found after the wait succeeded or raises TimeoutException.
C22_FindElementOutcomes ==
    (apc = "done" /\ amethod = "find_element"
        /\ aresult # "WebDriverException") =>
        \/ aresult = "TimeoutException" /\ alog = <<>>
        \/ aresult = "element" /\ wresult = "True"
                               /\ alog = <<"find_element">>

\* C23: get_all_test_cases returns one entry for each case of the test_cases
\* section of the document, the case's mapping with the key '_name' holding
\* the case name added, and the empty list for a document without the
\* section; the documents the loader holds stay as the files gave them, so
\* no get_test_case_data returns a mapping with a '_name' key.
C23_AllCasesFrame ==
    /\ \A k \in DOMAIN cache : cache[k] \in Docs
    /\ (lop = "get_test_case_data" /\ lerr = "none")
          => "_name" \notin DOMAIN lres
    /\ (lop = "get_all_test_cases" /\ ~edited /\ lerr = "none") =>
          IF "test_cases" \notin DOMAIN LookedUpDoc THEN lres = <<>>
          ELSE LET cases == LookedUpDoc.test_cases
               IN  /\ Len(lres) = Cardinality(DOMAIN cases)
                   /\ \A c \in DOMAIN cases : \E i \in 1..Len(lres) :
                         /\ DOMAIN lres[i] = DOMAIN cases[c] \cup {"_name"}
                         /\ lres[i]["_name"] = c
                         /\ \A f \in DOMAIN cases[c] :
                               lres[i][f] = cases[c][f]

C23_Witness ==
    /\ lop = "get_all_test_cases"
    /\ ~edited
    /\ lerr = "none"
    /\ ~lread
    /\ cache[lfile] = DocFull
    /\ Len(lres) = 2
    /\ lres[1]["_name"] = "valid_login"
    /\ lres[2]["username"] = "bob"

====
